---- MODULE Spec2Model ----
(***************************************************************************)
(* Conversation-to-order protocol of the coffee-shop ordering app.         *)
(*                                                                         *)
(* The customer page (CustomerPage) holds one browser-side session at a    *)
(* time; its requests to /api/chat, /api/orders and /api/conversations are *)
(* messages in flight; the orders and conversations tables are the two     *)
(* stores.  Money is counted in cents.                                     *)
(***************************************************************************)
EXTENDS Integers, Sequences, FiniteSets, TLC

\* ------------------------------------------------------------------ bounds
MaxSessions == 2      \* handleStartOrder calls explored
MaxChats    == 2      \* chat requests explored
MaxRows     == 2      \* rows explored in the order-store specification
MaxPatches  == 3      \* status updates explored in the order-store specification
MaxNames    == 1      \* item names carried by one analytics event
MaxPieces   == 3      \* pieces (text runs, fenced segments) of one assistant message
MaxTranscripts == 1   \* transcription requests in flight explored

\* ------------------------------------------------------------- null values
NullId        == 0                                   \* null id / unset ref
NoPlacedOrder == [order_number |-> 0, total |-> 0]   \* useState(null)
NoReason      == "none"                              \* cancel_reason absent / NULL
NoTime        == "unset"                             \* completed_at NULL

\* ------------------------------------------------------ order drafts (LLM)
\* OrderData objects a confirmed ```json block can carry.
Item(p, q) == [totalPrice |-> p, quantity |-> q]

\* The pricing example ($5.75 x 1, $3.50 x 2) and an empty item list.
Drafts ==
  { [customer_name |-> "Ann", items |-> << Item(575, 1), Item(350, 2) >>],
    [customer_name |-> "Ann", items |-> << >>] }

\* Further drafts priced in the order-store specification: no customer name
\* with ten $6.00 drinks, and one $4.00 drink.
PricedDrafts ==
  Drafts \cup
  { [customer_name |-> "", items |-> << Item(600, 10) >>],
    [customer_name |-> "", items |-> << Item(400, 1) >>] }

\* Cart snapshots a ```cart block can carry.
Carts == { << "Latte" >> }

\* ------------------------------------------------------- analytics events
\* Item names as the model writes them, character by character: "Chai",
\* " chai" and "Scone".
ItemNames ==
  { << "C", "h", "a", "i" >>, << " ", "c", "h", "a", "i" >>,
    << "S", "c", "o", "n", "e" >> }

\* Arrays of at most n item names.
NameArrays(n) == UNION { [1 .. k -> ItemNames] : k \in 0 .. n }

\* The object extractAnalytics returns: three arrays of item names.
NoEvent ==
  [off_menu_requests |-> << >>, upsell_attempts |-> << >>, upsell_successes |-> << >>]

\* Events carrying at most MaxNames names in all.
Events ==
  { e \in [off_menu_requests : NameArrays(MaxNames),
           upsell_attempts   : NameArrays(MaxNames),
           upsell_successes  : NameArrays(MaxNames)] :
      Len(e.off_menu_requests) + Len(e.upsell_attempts) + Len(e.upsell_successes)
        <= MaxNames }

\* ----------------------------------------------------------------- pricing
\* orderData.items.reduce((sum, item) => sum + item.totalPrice * item.quantity, 0)
RECURSIVE Subtotal(_)
Subtotal(items) ==
  IF items = << >> THEN 0
  ELSE Subtotal(SubSeq(items, 1, Len(items) - 1))
       + items[Len(items)].totalPrice * items[Len(items)].quantity

\* Half-up rounding of subtotal * 0.08875 to whole cents, in exact arithmetic.
RoundHalfUpTax(sub) == (sub * 8875 + 50000) \div 100000

\* Subtotals (cents) whose exact tax is a tie k + 0.5 cents.
IsTaxTie(sub) == (sub * 8875) % 100000 = 50000

\* Subtotals up to $200 at which the IEEE-754 double product
\* subtotal * 0.08875 * 100 lands just below the tie, so that Math.round
\* goes down: 60 * 0.08875 * 100 evaluates to 532.4999999999999.
DoubleBelowTie == { 6000, 7600, 9200, 10800, 17200, 18800 }

\* const tax = Math.round(subtotal * 0.08875 * 100) / 100;
Tax(sub) ==
  IF IsTaxTie(sub) /\ sub \in DoubleBelowTie
  THEN RoundHalfUpTax(sub) - 1
  ELSE RoundHalfUpTax(sub)

\* const total = Math.round((subtotal + tax) * 100) / 100;
Total(sub, tax) == sub + tax

\* Body of the POST /api/orders request built by submitOrder.
OrderBody(orderData) ==
  LET subtotal == Subtotal(orderData.items)
      tax      == Tax(subtotal)
  IN  [customer_name |-> orderData.customer_name,
       items         |-> orderData.items,
       subtotal      |-> subtotal,
       tax           |-> tax,
       total         |-> Total(subtotal, tax)]

\* ------------------------------------------------------------------- state
VARIABLES
  \* CustomerPage (browser)
  orderStarted,       \* useState(false)
  isVoiceMode,        \* useState(false)
  orderPlaced,        \* useState(false): the session's finalized flag
  placedOrder,        \* useState(null): reference to the placed order
  messages,           \* useState([]): roles of the turns shown
  cartItems,          \* useState([]): the live cart
  isLoading,          \* useState(false)
  isSendingRef,       \* useRef(false): lock against concurrent sends
  conversationIdRef,  \* useRef(null): id of the conversation record
  uncaught,           \* exceptions no handler of the page caught
  errorToast,         \* useState(null): the transient error notification
  sessionNo,          \* number of the session_id drawn by handleStartOrder
  \* requests in flight
  chat,               \* the /api/chat call of sendToAPI
  nChat,              \* chat requests issued so far
  orderReqs,          \* POST /api/orders calls of submitOrder
  convCreates,        \* POST /api/conversations calls of handleStartOrder
  convPatches,        \* PATCH /api/conversations/[id] calls (conversion)
  analyticsReqs,      \* PATCH /api/conversations/[id] calls of sendAnalytics
  \* stores
  lastFailed,         \* history: the latest submitOrder call that ended without res.ok
  orders,             \* table orders, in insertion order
  orderSeq,           \* last value of the sequence behind orders.order_number
  conversations,      \* table conversations; id = position
  \* staff side
  lastPatch,          \* response of the latest PATCH /api/orders/[id]
  nPatch,             \* status updates issued so far
  \* block extraction on its own
  turnText,           \* an assistant message (data.message)
  extracted,          \* what the extractors and the formatter make of it
  \* voice input
  isRecording,        \* useState(false): the microphone is recording
  isTranscribing,     \* useState(false): a recording is being transcribed
  transcribeReqs      \* POST /api/transcribe calls of mediaRecorder.onstop in flight

page   == << orderStarted, isVoiceMode, orderPlaced, placedOrder, messages,
             cartItems, isLoading, isSendingRef, conversationIdRef, uncaught,
             errorToast,
             sessionNo >>
flight == << chat, nChat, orderReqs, lastFailed, convCreates, convPatches,
             analyticsReqs >>
staff  == << lastPatch, nPatch >>
extractor == << turnText, extracted >>
recorder == << isRecording, isTranscribing, transcribeReqs >>
vars   == << page, flight, orders, orderSeq, conversations, staff, extractor,
             recorder >>

IdleChat == [phase |-> "idle", n |-> 0, session |-> 0]
NoFailure == [session |-> 0, items |-> << >>, code |-> 0]
NoPatch   == [code |-> 0, id |-> NullId, from |-> "none", status |-> "none",
              cancel_reason |-> NoReason]

\* The value of orderPlaced that submitOrder tests.  sendMessage is
\* useCallback(..., []), so the sendToAPI it calls, and the submitOrder that
\* sendToAPI calls, are the closures of the first render, where
\* useState(false) made orderPlaced false.
CapturedOrderPlaced == FALSE

\* errorToast === null
NoToast == "none"

\* No message has been handed to the extractors.
NoExtraction == [done |-> FALSE]

Init ==
  /\ orderStarted = FALSE
  /\ isVoiceMode = FALSE
  /\ orderPlaced = FALSE
  /\ placedOrder = NoPlacedOrder
  /\ messages = << >>
  /\ cartItems = << >>
  /\ isLoading = FALSE
  /\ isSendingRef = FALSE
  /\ conversationIdRef = NullId
  /\ uncaught = {}
  /\ errorToast = NoToast
  /\ sessionNo = 0
  /\ chat = IdleChat
  /\ nChat = 0
  /\ orderReqs = {}
  /\ lastFailed = NoFailure
  /\ convCreates = {}
  /\ convPatches = {}
  /\ analyticsReqs = {}
  /\ orders = << >>
  /\ orderSeq = 0
  /\ conversations = << >>
  /\ lastPatch = NoPatch
  /\ nPatch = 0
  /\ turnText = << >>
  /\ extracted = NoExtraction
  /\ isRecording = FALSE
  /\ isTranscribing = FALSE
  /\ transcribeReqs = 0

\* ------------------------------------------------------------ the recorder
\* mediaRecorder.onstop, which runs after the handler that stopped the
\* recorder has returned; cleared is what that handler did to isTranscribing
\* (setIsTranscribing(false) or nothing).  A recording under 500 bytes is
\* dropped; otherwise isTranscribing is set and the audio is posted.
OnStop(meaningful, cleared) ==
  /\ isRecording' = FALSE
  /\ isTranscribing' = IF meaningful THEN TRUE ELSE (isTranscribing /\ ~cleared)
  /\ transcribeReqs' = IF meaningful THEN transcribeReqs + 1 ELSE transcribeReqs

\* A handler that calls stopRecording() and may clear isTranscribing:
\* without a recording running, stopRecording does nothing.
StopRecordingIn(cleared) ==
  IF isRecording
  THEN \E meaningful \in BOOLEAN : OnStop(meaningful, cleared)
  ELSE /\ isRecording' = isRecording
       /\ isTranscribing' = (isTranscribing /\ ~cleared)
       /\ transcribeReqs' = transcribeReqs

\* ------------------------------------------------ start / cancel / new order
\* POST /api/conversations: the table after the insert of a new row.
ConversationsPOST(session_id) ==
  Append(conversations,
         [session_id |-> session_id, converted |-> FALSE, order_id |-> NullId,
          off_menu_requests |-> << >>, upsell_attempts |-> << >>,
          upsell_successes |-> << >>])

\* handleStartOrder up to its await: a fresh session_id is posted.  The
\* route runs while the page waits: created tells whether it inserted the
\* row and answered with it, or the request failed.
StartOrderEffect(voice, created) ==
  /\ orderStarted' = TRUE
  /\ isVoiceMode' = voice
  /\ sessionNo' = sessionNo + 1
  /\ conversations' = IF created THEN ConversationsPOST(sessionNo + 1) ELSE conversations
  /\ convCreates' = convCreates \cup
       { [session |-> sessionNo + 1,
          conv |-> IF created THEN Len(conversations) + 1 ELSE NullId] }

\* The start screen is rendered only while orderStarted is false.
handleStartOrder(voice, created) ==
  /\ ~orderStarted
  /\ sessionNo < MaxSessions
  /\ StartOrderEffect(voice, created)
  /\ UNCHANGED << orderPlaced, placedOrder, messages, cartItems, isLoading,
                  isSendingRef, conversationIdRef, uncaught, errorToast >>
  /\ UNCHANGED << chat, nChat, orderReqs, lastFailed, convPatches, analyticsReqs >>
  /\ UNCHANGED << orders, orderSeq, staff, extractor, recorder >>

\* handleStartOrder after its await: keep the id if one came back
\* (data.conversation?.id), show the greeting.
StartOrderResume(r) ==
  /\ r \in convCreates
  /\ conversationIdRef' = IF r.conv # NullId THEN r.conv ELSE conversationIdRef
  /\ messages' = << "assistant" >>
  /\ convCreates' = convCreates \ {r}
  /\ UNCHANGED << orderStarted, isVoiceMode, orderPlaced, placedOrder, cartItems,
                  isLoading, isSendingRef, uncaught, errorToast, sessionNo >>
  /\ UNCHANGED << chat, nChat, orderReqs, lastFailed, convPatches, analyticsReqs >>
  /\ UNCHANGED << orders, orderSeq, conversations, staff, extractor, recorder >>

\* The Cancel / Done buttons are rendered only in the chat interface.
handleCancelOrder ==
  /\ orderStarted
  /\ orderStarted' = FALSE
  /\ orderPlaced' = FALSE
  /\ placedOrder' = NoPlacedOrder
  /\ messages' = << >>
  /\ isLoading' = FALSE
  /\ cartItems' = << >>
  /\ conversationIdRef' = NullId
  /\ StopRecordingIn(TRUE)
  /\ UNCHANGED << isVoiceMode, isSendingRef, uncaught, errorToast, sessionNo >>
  /\ UNCHANGED << flight, orders, orderSeq, conversations, staff, extractor >>

\* The New Order button is rendered with the receipt.
handleNewOrder(created) ==
  /\ orderStarted /\ orderPlaced /\ placedOrder # NoPlacedOrder
  /\ sessionNo < MaxSessions
  /\ orderPlaced' = FALSE
  /\ placedOrder' = NoPlacedOrder
  /\ messages' = << >>
  /\ cartItems' = << >>
  /\ StartOrderEffect(isVoiceMode, created)
  /\ UNCHANGED << isLoading, isSendingRef, conversationIdRef, uncaught, errorToast >>
  /\ UNCHANGED << chat, nChat, orderReqs, lastFailed, convPatches, analyticsReqs >>
  /\ UNCHANGED << orders, orderSeq, staff, extractor, recorder >>

\* ------------------------------------------------------------ chat turns
\* What the extractors find in one assistant message: a cart snapshot
\* (extractCartData) and a confirmed order (extractOrderData), each optional.
NoDraft == [customer_name |-> "", items |-> << >>]

\* A plain turn, a cart snapshot, a confirmed order repeated with its cart,
\* and a confirmed order without items; none reports an analytics event.
Turns ==
  { [hasCart |-> FALSE, cart |-> << >>, hasAnalytics |-> FALSE, analytics |-> NoEvent,
     hasOrder |-> FALSE, order |-> NoDraft] }
  \cup { [hasCart |-> TRUE, cart |-> c, hasAnalytics |-> FALSE, analytics |-> NoEvent,
          hasOrder |-> FALSE, order |-> NoDraft] : c \in Carts }
  \cup { [hasCart |-> d.items # << >>,
          cart |-> IF d.items # << >> THEN << "Latte" >> ELSE << >>,
          hasAnalytics |-> FALSE, analytics |-> NoEvent,
          hasOrder |-> TRUE, order |-> d] : d \in Drafts }

\* Turns that only report an analytics event.
AnalyticsTurns ==
  { [hasCart |-> FALSE, cart |-> << >>, hasAnalytics |-> TRUE, analytics |-> e,
     hasOrder |-> FALSE, order |-> NoDraft] : e \in Events }

\* Variant: sendMessage and sendToAPI without the isSendingRef test.
sendMessage_NoLock(nonBlank) ==
  /\ orderStarted /\ ~orderPlaced /\ ~isLoading
  /\ nChat < MaxChats
  /\ IF ~nonBlank
     THEN UNCHANGED << messages, isLoading, isSendingRef, chat, nChat >>
     ELSE /\ messages' = Append(messages, "user")
          /\ isSendingRef' = TRUE
          /\ isLoading' = TRUE
          /\ nChat' = nChat + 1
          /\ chat' = [phase |-> "fetch", n |-> nChat + 1, session |-> sessionNo]
  /\ StopRecordingIn(nonBlank)
  /\ UNCHANGED << orderStarted, isVoiceMode, orderPlaced, placedOrder, cartItems,
                  conversationIdRef, uncaught, errorToast, sessionNo >>
  /\ UNCHANGED << orderReqs, lastFailed, convCreates, convPatches, analyticsReqs >>
  /\ UNCHANGED << orders, orderSeq, conversations, staff, extractor >>

\* sendMessage: dropped on blank text or while a send holds the lock;
\* otherwise appends the user turn and enters sendToAPI, which takes the lock.
\* The input row is rendered while the order is not placed and is disabled
\* while isLoading.
sendMessage(nonBlank) ==
  /\ orderStarted /\ ~orderPlaced /\ ~isLoading
  /\ nChat < MaxChats
  /\ IF ~nonBlank \/ isSendingRef
     THEN UNCHANGED << messages, isLoading, isSendingRef, chat, nChat >>
     ELSE /\ messages' = Append(messages, "user")
          /\ isSendingRef' = TRUE
          /\ isLoading' = TRUE
          /\ nChat' = nChat + 1
          /\ chat' = [phase |-> "fetch", n |-> nChat + 1, session |-> sessionNo]
  /\ StopRecordingIn(nonBlank /\ ~isSendingRef)
  /\ UNCHANGED << orderStarted, isVoiceMode, orderPlaced, placedOrder, cartItems,
                  conversationIdRef, uncaught, errorToast, sessionNo >>
  /\ UNCHANGED << orderReqs, lastFailed, convCreates, convPatches, analyticsReqs >>
  /\ UNCHANGED << orders, orderSeq, conversations, staff, extractor >>

\* Variant: a finally block that forgets the ref.
ReleaseSend_KeepsLock ==
  /\ isSendingRef' = isSendingRef
  /\ isLoading' = FALSE
  /\ chat' = IdleChat

\* finally { isSendingRef.current = false; setIsLoading(false); }
ReleaseSend ==
  /\ isSendingRef' = FALSE
  /\ isLoading' = FALSE
  /\ chat' = IdleChat

\* prev.slice(0, -1)
DropLast(s) == IF s = << >> THEN << >> ELSE SubSeq(s, 1, Len(s) - 1)

\* The ways a chat request fails: data.error with isRateLimit, data.error
\* without, and a fetch or res.json() that throws.
ChatFailures == { "rateLimit", "error", "thrown" }

\* The text setErrorToast is given.
ToastFor(failure) ==
  CASE failure = "rateLimit" -> "Give me just a moment... Please try again."
    [] failure = "error" -> "Something went wrong. Please try again."
    [] OTHER -> "Connection error. Please try again."

\* sendToAPI when /api/chat answers with data.error, or when the fetch
\* throws: the toast is set, the last message is removed, the lock released.
ChatFailure(failure) ==
  /\ chat.phase = "fetch"
  /\ errorToast' = ToastFor(failure)
  /\ messages' = DropLast(messages)
  /\ ReleaseSend
  /\ UNCHANGED << orderStarted, isVoiceMode, orderPlaced, placedOrder, cartItems,
                  conversationIdRef, uncaught, sessionNo >>
  /\ UNCHANGED << nChat, orderReqs, lastFailed, convCreates, convPatches, analyticsReqs >>
  /\ UNCHANGED << orders, orderSeq, conversations, staff, extractor, recorder >>

\* setTimeout(() => setErrorToast(null), 4000): a timer set by an earlier
\* failure clears whatever toast is shown when it fires.
ToastExpires ==
  /\ errorToast # NoToast
  /\ errorToast' = NoToast
  /\ UNCHANGED << orderStarted, isVoiceMode, orderPlaced, placedOrder, messages,
                  cartItems, isLoading, isSendingRef, conversationIdRef, uncaught,
                  sessionNo >>
  /\ UNCHANGED << flight, orders, orderSeq, conversations, staff, extractor, recorder >>

\* hasData of sendAnalytics.
HasData(analytics) ==
  \/ Len(analytics.off_menu_requests) > 0
  \/ Len(analytics.upsell_attempts) > 0
  \/ Len(analytics.upsell_successes) > 0

\* sendAnalytics: nothing without a conversation id or without data;
\* otherwise the event is sent to the conversation the ref names now.  The
\* value is the set of requests in flight after the call.
sendAnalytics(analytics) ==
  IF conversationIdRef = NullId \/ ~HasData(analytics)
  THEN analyticsReqs
  ELSE analyticsReqs \cup
         { [id |-> chat.n, conv |-> conversationIdRef, body |-> analytics,
            phase |-> "sent", current |-> NoEvent] }

\* orderData.items is an array (it has reduce and map).
HasItemsArray(orderData) == "items" \in DOMAIN orderData

\* The TypeErrors a confirmed order without an items array raises:
\* orderData.items.reduce in submitOrder, before its try block, rejects the
\* promise nobody awaits; the same expression in formatMessageContent throws
\* while the message is rendered.
RaisedBy(t) ==
  IF t.hasOrder /\ ~HasItemsArray(t.order)
  THEN (IF CapturedOrderPlaced THEN {} ELSE { "submitOrder" }) \cup { "formatMessageContent" }
  ELSE {}

\* Variant: a draft whose last submission by this session failed is not
\* posted again.
SubmitOrderCall_OncePerDraft(orderData) ==
  IF \/ CapturedOrderPlaced \/ ~HasItemsArray(orderData)
     \/ lastFailed.session = sessionNo /\ lastFailed.items = orderData.items
  THEN orderReqs' = orderReqs
  ELSE orderReqs' = orderReqs \cup
         { [id |-> chat.n, session |-> sessionNo, body |-> OrderBody(orderData),
            phase |-> "sent", code |-> 0, contacted |-> FALSE,
            order_id |-> NullId, order_number |-> 0] }

\* Variant: an order is posted only for a session that has a conversation.
SubmitOrderCall_NeedsConversation(orderData) ==
  IF CapturedOrderPlaced \/ ~HasItemsArray(orderData) \/ conversationIdRef = NullId
  THEN orderReqs' = orderReqs
  ELSE orderReqs' = orderReqs \cup
         { [id |-> chat.n, session |-> sessionNo, body |-> OrderBody(orderData),
            phase |-> "sent", code |-> 0, contacted |-> FALSE,
            order_id |-> NullId, order_number |-> 0] }

\* submitOrder up to its await: the guard, the pricing, the POST.
SubmitOrderCall(orderData) ==
  IF CapturedOrderPlaced \/ ~HasItemsArray(orderData)
  THEN orderReqs' = orderReqs
  ELSE orderReqs' = orderReqs \cup
         { [id |-> chat.n, session |-> sessionNo, body |-> OrderBody(orderData),
            phase |-> "sent", code |-> 0, contacted |-> FALSE,
            order_id |-> NullId, order_number |-> 0] }

\* sendToAPI when /api/chat answers with a message: append it, replace the
\* cart if a snapshot came, submit a confirmed order, then speak.  speakText
\* returns at once outside voice mode, and the lock is released.
ChatSuccess(t) ==
  /\ chat.phase = "fetch"
  /\ messages' = Append(messages, "assistant")
  /\ cartItems' = IF t.hasCart THEN t.cart ELSE cartItems
  /\ analyticsReqs' = IF t.hasAnalytics THEN sendAnalytics(t.analytics) ELSE analyticsReqs
  /\ IF t.hasOrder THEN SubmitOrderCall(t.order) ELSE orderReqs' = orderReqs
  /\ uncaught' = uncaught \cup RaisedBy(t)
  /\ IF isVoiceMode
     THEN /\ chat' = [chat EXCEPT !.phase = "speaking"]
          /\ UNCHANGED << isSendingRef, isLoading >>
     ELSE ReleaseSend
  /\ UNCHANGED << orderStarted, isVoiceMode, orderPlaced, placedOrder,
                  conversationIdRef, errorToast, sessionNo >>
  /\ UNCHANGED << nChat, lastFailed, convCreates, convPatches >>
  /\ UNCHANGED << orders, orderSeq, conversations, staff, extractor, recorder >>

\* speakText resolves (playback ended, failed, or the 30 s timeout fired).
SpeakDone ==
  /\ chat.phase = "speaking"
  /\ ReleaseSend
  /\ UNCHANGED << orderStarted, isVoiceMode, orderPlaced, placedOrder, messages,
                  cartItems, conversationIdRef, uncaught, errorToast, sessionNo >>
  /\ UNCHANGED << nChat, orderReqs, lastFailed, convCreates, convPatches, analyticsReqs >>
  /\ UNCHANGED << orders, orderSeq, conversations, staff, extractor, recorder >>

\* ------------------------------------------------------------ voice input
\* The microphone button while nothing is recording: it is disabled while
\* isLoading, isTranscribing or isSpeaking (speech under the send lock), and
\* startRecording returns at once under the same conditions.
startRecording ==
  /\ orderStarted /\ ~orderPlaced
  /\ ~isRecording /\ ~isLoading /\ ~isTranscribing /\ chat.phase # "speaking"
  /\ transcribeReqs < MaxTranscripts
  /\ isVoiceMode' = TRUE
  /\ isRecording' = TRUE
  /\ UNCHANGED << orderStarted, orderPlaced, placedOrder, messages, cartItems,
                  isLoading, isSendingRef, conversationIdRef, uncaught, errorToast,
                  sessionNo >>
  /\ UNCHANGED << flight, orders, orderSeq, conversations, staff, extractor,
                  isTranscribing, transcribeReqs >>

\* The recording is stopped by the microphone button, by the silence
\* detector, or (byFocus) by the text input taking the focus, which also
\* leaves voice mode; onstop follows.
RecordingStops(meaningful, byFocus) ==
  /\ isRecording
  /\ OnStop(meaningful, FALSE)
  /\ isVoiceMode' = IF byFocus THEN FALSE ELSE isVoiceMode
  /\ UNCHANGED << orderStarted, orderPlaced, placedOrder, messages, cartItems,
                  isLoading, isSendingRef, conversationIdRef, uncaught, errorToast,
                  sessionNo >>
  /\ UNCHANGED << flight, orders, orderSeq, conversations, staff, extractor >>

\* onstop after its await: /api/transcribe answered.  With a text it calls
\* sendMessage(text), which returns before setIsTranscribing(false) when
\* the lock is held; with no text, or when the fetch throws, it clears
\* isTranscribing itself.
TranscriptArrives(hasText) ==
  /\ transcribeReqs > 0
  /\ transcribeReqs' = transcribeReqs - 1
  /\ hasText => (isSendingRef \/ nChat < MaxChats)
  /\ IF hasText /\ isSendingRef
     THEN UNCHANGED << isTranscribing, messages, isLoading, isSendingRef, chat, nChat >>
     ELSE IF hasText
     THEN /\ isTranscribing' = FALSE
          /\ messages' = Append(messages, "user")
          /\ isSendingRef' = TRUE
          /\ isLoading' = TRUE
          /\ nChat' = nChat + 1
          /\ chat' = [phase |-> "fetch", n |-> nChat + 1, session |-> sessionNo]
     ELSE /\ isTranscribing' = FALSE
          /\ UNCHANGED << messages, isLoading, isSendingRef, chat, nChat >>
  /\ UNCHANGED << orderStarted, isVoiceMode, orderPlaced, placedOrder, cartItems,
                  conversationIdRef, uncaught, errorToast, sessionNo >>
  /\ UNCHANGED << orderReqs, lastFailed, convCreates, convPatches, analyticsReqs >>
  /\ UNCHANGED << orders, orderSeq, conversations, staff, extractor, isRecording >>

\* ------------------------------------------------------- POST /api/orders
\* Variant: the route without its item check.
ItemsRejected_Never(items) == FALSE

\* if (!items || items.length === 0)
ItemsRejected(items) == items = << >>

\* Outcomes of the insert: the row is stored; the database is not reached;
\* or the statement fails after the sequence has handed out its number.
InsertOutcomes == { "inserted", "unreachable", "aborted" }

\* Variant: a column default that reads the sequence without advancing it.
SeqAfter_NotAdvanced(outcome) == orderSeq

\* order_number SERIAL: nextval() is taken by every insert that reaches the
\* statement and is not given back when the insert fails.
SeqAfter(outcome) == IF outcome = "unreachable" THEN orderSeq ELSE orderSeq + 1

\* The row the insert creates: id is the primary key (the position in the
\* table stands for the uuid), order_number the sequence value; src records
\* the session whose submitOrder sent the request (not a column).
NewOrderRow(body, src) ==
  [src           |-> src,
   id            |-> Len(orders) + 1,
   order_number  |-> SeqAfter("inserted"),
   customer_name |-> IF body.customer_name = "" THEN "Guest" ELSE body.customer_name,
   items         |-> body.items,
   subtotal      |-> body.subtotal,
   tax           |-> body.tax,
   total         |-> body.total,
   status        |-> "pending",
   cancel_reason |-> NoReason,
   completed_at  |-> NoTime]

\* POST /api/orders: 400 before the table is touched when there are no
\* items; otherwise the insert, answering 201 with the row or 500.
OrdersPOST(r, outcome) ==
  /\ r \in orderReqs /\ r.phase = "sent"
  /\ IF ItemsRejected(r.body.items)
     THEN /\ orders' = orders
          /\ orderSeq' = orderSeq
          /\ orderReqs' = (orderReqs \ {r}) \cup
               { [r EXCEPT !.phase = "done", !.code = 400] }
     ELSE IF outcome = "inserted"
     THEN /\ orders' = Append(orders, NewOrderRow(r.body, r.session))
          /\ orderSeq' = SeqAfter(outcome)
          /\ orderReqs' = (orderReqs \ {r}) \cup
               { [r EXCEPT !.phase = "done", !.code = 201, !.contacted = TRUE,
                           !.order_id = Len(orders) + 1,
                           !.order_number = SeqAfter(outcome)] }
     ELSE /\ orders' = orders
          /\ orderSeq' = SeqAfter(outcome)
          /\ orderReqs' = (orderReqs \ {r}) \cup
               { [r EXCEPT !.phase = "done", !.code = 500, !.contacted = TRUE] }
  /\ UNCHANGED << page, chat, nChat, lastFailed, convCreates, convPatches, analyticsReqs >>
  /\ UNCHANGED << conversations, staff, extractor, recorder >>

\* res.ok
ResOk(code) == code \in 200 .. 299

\* Variant: setOrderPlaced(res.ok), which clears the flag on a failed response.
OrderPlacedAfter_FollowsOk(code, placed) == ResOk(code)

\* Variant: setOrderPlaced(true) without the res.ok test.
OrderPlacedAfter_IgnoresOk(code, placed) == TRUE

\* if (res.ok) { setOrderPlaced(true); ... }
OrderPlacedAfter(code, placed) == IF ResOk(code) THEN TRUE ELSE placed

\* if (res.ok) { ... setPlacedOrder({ order_number: data.order.order_number, total }); ... }
PlacedOrderAfter(r, placed) ==
  IF ResOk(r.code)
  THEN [order_number |-> r.order_number, total |-> r.body.total]
  ELSE placed

\* What a submitOrder call that ended without res.ok leaves in the history;
\* code is the response status, 0 when the fetch threw.
FailedSubmit(r, code) == [session |-> r.session, items |-> r.body.items, code |-> code]

\* submitOrder after its await, with a response: on res.ok the session is
\* marked placed, the order reference kept, and the conversion is posted to
\* the conversation the ref names now; otherwise nothing changes.
SubmitOrderResponse(r) ==
  /\ r \in orderReqs /\ r.phase = "done"
  /\ orderReqs' = orderReqs \ {r}
  /\ orderPlaced' = OrderPlacedAfter(r.code, orderPlaced)
  /\ placedOrder' = PlacedOrderAfter(r, placedOrder)
  /\ convPatches' =
       IF ResOk(r.code) /\ conversationIdRef # NullId
       THEN convPatches \cup
              { [conv |-> conversationIdRef, converted |-> TRUE,
                 order_id |-> r.order_id] }
       ELSE convPatches
  /\ lastFailed' = IF ResOk(r.code) THEN lastFailed ELSE FailedSubmit(r, r.code)
  /\ UNCHANGED << orderStarted, isVoiceMode, messages, cartItems, isLoading,
                  isSendingRef, conversationIdRef, uncaught, errorToast, sessionNo >>
  /\ UNCHANGED << chat, nChat, convCreates, analyticsReqs >>
  /\ UNCHANGED << orders, orderSeq, conversations, staff, extractor, recorder >>

\* submitOrder after its await, the fetch having thrown: logged only.  The
\* request may or may not have reached the server.
SubmitOrderThrows(r) ==
  /\ r \in orderReqs
  /\ orderReqs' = orderReqs \ {r}
  /\ lastFailed' = FailedSubmit(r, 0)
  /\ UNCHANGED << page, chat, nChat, convCreates, convPatches, analyticsReqs >>
  /\ UNCHANGED << orders, orderSeq, conversations, staff, extractor, recorder >>

\* ------------------------------------------ PATCH /api/conversations/[id]
\* Variant: the update without the order_id column.
ConvertedUpdate_NoOrderId(row, body) == [row EXCEPT !.converted = body.converted]

\* .update({ converted: body.converted, order_id: body.order_id || null })
ConvertedUpdate(row, body) ==
  [row EXCEPT !.converted = body.converted, !.order_id = body.order_id]

\* The conversion branch of PATCH; a failed update or a lost request leaves
\* the row alone, and the client only logs.
ConversationsIdPATCH(q, dbOk) ==
  /\ q \in convPatches
  /\ convPatches' = convPatches \ {q}
  /\ conversations' =
       IF dbOk
       THEN [conversations EXCEPT ![q.conv] = ConvertedUpdate(@, q)]
       ELSE conversations
  /\ UNCHANGED << page, chat, nChat, orderReqs, lastFailed, convCreates, analyticsReqs >>
  /\ UNCHANGED << orders, orderSeq, staff, extractor, recorder >>

\* ----------------------- PATCH /api/conversations/[id]: the analytics branch
RangeOf(seq) == { seq[i] : i \in 1 .. Len(seq) }

\* Variant: the arrays spread into one without the Set.
SetSpread_Concat(seq) == seq

\* [...new Set(seq)]: the first occurrence of every value, in order.
\* Values are compared as they are (two strings are equal when they have the
\* same characters).
RECURSIVE SetSpread(_)
SetSpread(seq) ==
  IF seq = << >> THEN << >>
  ELSE LET front == SetSpread(DropLast(seq))
           last  == seq[Len(seq)]
       IN  IF last \in RangeOf(front) THEN front ELSE Append(front, last)

\* newOffMenu, newUpsellAttempts, newUpsellSuccesses.
MergeAnalytics(current, body) ==
  [off_menu_requests |-> SetSpread(current.off_menu_requests \o body.off_menu_requests),
   upsell_attempts   |-> SetSpread(current.upsell_attempts \o body.upsell_attempts),
   upsell_successes  |-> SetSpread(current.upsell_successes \o body.upsell_successes)]

\* The three analytics columns of a conversation row.
AnalyticsOf(row) ==
  [off_menu_requests |-> row.off_menu_requests,
   upsell_attempts   |-> row.upsell_attempts,
   upsell_successes  |-> row.upsell_successes]

\* The route's first statement: select the current arrays.  An error
\* answers 500, which sendAnalytics does not look at.
AnalyticsSelect(q, dbOk) ==
  /\ q \in analyticsReqs /\ q.phase = "sent"
  /\ analyticsReqs' =
       IF dbOk /\ q.conv \in 1 .. Len(conversations)
       THEN (analyticsReqs \ {q}) \cup
              { [q EXCEPT !.phase = "read", !.current = AnalyticsOf(conversations[q.conv])] }
       ELSE analyticsReqs \ {q}
  /\ UNCHANGED << page, chat, nChat, orderReqs, lastFailed, convCreates, convPatches >>
  /\ UNCHANGED << orders, orderSeq, conversations, staff, extractor, recorder >>

\* The route's second statement: write the merged arrays over the row's.
AnalyticsUpdate(q, dbOk) ==
  /\ q \in analyticsReqs /\ q.phase = "read"
  /\ analyticsReqs' = analyticsReqs \ {q}
  /\ conversations' =
       IF dbOk
       THEN LET merged == MergeAnalytics(q.current, q.body)
            IN  [conversations EXCEPT
                   ![q.conv].off_menu_requests = merged.off_menu_requests,
                   ![q.conv].upsell_attempts = merged.upsell_attempts,
                   ![q.conv].upsell_successes = merged.upsell_successes]
       ELSE conversations
  /\ UNCHANGED << page, chat, nChat, orderReqs, lastFailed, convCreates, convPatches >>
  /\ UNCHANGED << orders, orderSeq, staff, extractor, recorder >>

\* --------------------------------------------------------- block extraction
\* An assistant message is a sequence of tokens: a run of conversational
\* text, an opening marker (three backticks and a label), a bare closing
\* marker (three backticks), or the text of a payload.
TextToken      == [text |-> "words"]
OpenToken(l)   == [open |-> l]
FenceToken     == [fence |-> "close"]
PayloadToken(v) == [payload |-> v]

Labels == { "cart", "analytics", "json" }

\* Payload texts by what JSON.parse makes of them: an array, an object
\* (a record of the fields it has; flags as JSON literals), or a syntax error.
CartPayloads ==
  { [array |-> << "Latte" >>], [array |-> << "Mocha", "Latte" >>], [array |-> << >>],
    [object |-> [note |-> "none"]], [invalid |-> "cut"] }

EventPayloads ==
  { [object |-> [off_menu_requests |-> << << "C", "h", "a", "i" >> >>,
                 upsell_attempted |-> << >>, upsell_accepted |-> << >>]],
    [invalid |-> "cut"] }

OrderPayloads ==
  { [object |-> [order_confirmed |-> "true", customer_name |-> "Ann",
                 items |-> << Item(575, 1) >>]],
    [object |-> [order_confirmed |-> "false", customer_name |-> "Ann",
                 items |-> << Item(575, 1) >>]],
    [object |-> [order_confirmed |-> "\"false\"", customer_name |-> "Ann",
                 items |-> << Item(575, 1) >>]],
    [object |-> [customer_name |-> "Ann", items |-> << Item(575, 1) >>]],
    [object |-> [order_confirmed |-> "true", customer_name |-> "Ann"]],
    [invalid |-> "cut"] }

PayloadsOf(l) ==
  CASE l = "cart" -> CartPayloads [] l = "analytics" -> EventPayloads [] OTHER -> OrderPayloads

\* Payloads of segments that were cut off: whole, or cut inside the JSON.
CutPayloadsOf(l) ==
  { v \in PayloadsOf(l) :
      \/ "invalid" \in DOMAIN v
      \/ "array" \in DOMAIN v /\ Len(v.array) = 1
      \/ "object" \in DOMAIN v /\ l = "analytics"
      \/ /\ "object" \in DOMAIN v /\ l = "json"
         /\ { "order_confirmed", "items" } \subseteq DOMAIN v.object
         /\ v.object.order_confirmed = "true" }

\* The pieces a message is made of: a run of text, or a segment with its
\* closing marker or cut off before it.
Pieces ==
  { << TextToken >> }
  \cup UNION { { << OpenToken(l), PayloadToken(v), FenceToken >> : v \in PayloadsOf(l) }
               : l \in Labels }
  \cup UNION { { << OpenToken(l), PayloadToken(v) >> : v \in CutPayloadsOf(l) } : l \in Labels }

RECURSIVE Concat(_)
Concat(ps) == IF ps = << >> THEN << >> ELSE Head(ps) \o Concat(Tail(ps))

\* Messages of at most MaxPieces pieces.
Texts == { Concat(ps) : ps \in UNION { [1 .. k -> Pieces] : k \in 0 .. MaxPieces } }

\* The token holds three backticks.
HasBackticks(tok) == "fence" \in DOMAIN tok \/ "open" \in DOMAIN tok

Least(S) == CHOOSE m \in S : \A n \in S : m <= n
Greatest(S) == CHOOSE m \in S : \A n \in S : m >= n

\* Where a pattern starts: the first opening marker with the label (0: none).
OpenIndex(toks, l) ==
  LET is == { i \in 1 .. Len(toks) : toks[i] = OpenToken(l) }
  IN  IF is = {} THEN 0 ELSE Least(is)

\* Variant: a greedy [\s\S]*, which runs to the last three backticks.
CloseIndex_Greedy(toks, i) ==
  LET js == { j \in (i + 1) .. Len(toks) : HasBackticks(toks[j]) }
  IN  IF js = {} THEN 0 ELSE Greatest(js)

\* Where the lazy [\s\S]*? stops: the first three backticks after the
\* opening marker, be they a closing marker or the start of another opening
\* marker (0: none).
CloseIndex(toks, i) ==
  LET js == { j \in (i + 1) .. Len(toks) : HasBackticks(toks[j]) }
  IN  IF js = {} THEN 0 ELSE Least(js)

NoMatch == [matched |-> FALSE, capture |-> << >>]

\* text.match(/```label\s*([\s\S]*?)\s*```/)
MatchClosed(toks, l) ==
  LET i == OpenIndex(toks, l)
      j == IF i = 0 THEN 0 ELSE CloseIndex(toks, i)
  IN  IF j = 0 THEN NoMatch
      ELSE [matched |-> TRUE, capture |-> SubSeq(toks, i + 1, j - 1)]

\* text.match(/```label\s*([\s\S]*)$/)
MatchToEnd(toks, l) ==
  LET i == OpenIndex(toks, l)
  IN  IF i = 0 THEN NoMatch
      ELSE [matched |-> TRUE, capture |-> SubSeq(toks, i + 1, Len(toks))]

\* JSON.parse of a capture: the value of the one payload it consists of;
\* anything else (nothing, text, markers, a cut payload) is a SyntaxError,
\* which every caller catches.
JSONparse(capture) ==
  IF Len(capture) = 1 /\ "payload" \in DOMAIN capture[1]
  THEN capture[1].payload
  ELSE [invalid |-> "cut"]

\* null, and a returned value.
Null == [isNull |-> TRUE]
Value(v) == [isNull |-> FALSE, value |-> v]

\* Variant: a snapshot counts only if it lists an item.
extractCartData_NonEmpty(text) ==
  LET cartMatch == MatchClosed(text, "cart")
      items     == JSONparse(cartMatch.capture)
  IN  IF cartMatch.matched /\ "array" \in DOMAIN items /\ items.array # << >>
      THEN Value(items.array) ELSE Null

extractCartData(text) ==
  LET cartMatch == MatchClosed(text, "cart")
      items     == JSONparse(cartMatch.capture)
  IN  IF cartMatch.matched /\ "array" \in DOMAIN items THEN Value(items.array) ELSE Null

\* data.field || fallback, for fields that hold arrays (an array is truthy).
FieldOr(o, f, fallback) == IF f \in DOMAIN o THEN o[f] ELSE fallback

\* The object extractAnalytics builds from the parsed data; an array has
\* none of the fields.
AnalyticsFrom(data) ==
  LET o == IF "object" \in DOMAIN data THEN data.object ELSE [note |-> "none"]
  IN  [off_menu_requests |-> FieldOr(o, "off_menu_requests", << >>),
       upsell_attempts   |-> FieldOr(o, "upsell_attempted",
                                     FieldOr(o, "upsell_attempts", << >>)),
       upsell_successes  |-> FieldOr(o, "upsell_accepted",
                                     FieldOr(o, "upsell_successes", << >>))]

extractAnalytics(text) ==
  LET closed == MatchClosed(text, "analytics")
      match  == IF closed.matched THEN closed ELSE MatchToEnd(text, "analytics")
      data   == JSONparse(match.capture)
  IN  IF match.matched /\ "invalid" \notin DOMAIN data
      THEN Value(AnalyticsFrom(data)) ELSE Null

\* if (data.order_confirmed): the truth value JavaScript gives the field; a
\* missing field is undefined, a non-empty string is true whatever it says.
Truthy(o, f) == f \in DOMAIN o /\ o[f] \notin { "false", "null", "0", "\"\"" }

extractOrderData(text) ==
  LET jsonMatch == MatchClosed(text, "json")
      data      == JSONparse(jsonMatch.capture)
  IN  IF /\ jsonMatch.matched
         /\ "object" \in DOMAIN data
         /\ Truthy(data.object, "order_confirmed")
      THEN Value(data.object) ELSE Null

\* What three backticks leave behind when a pattern ends on them: nothing
\* of a closing marker, the label of an opening marker.
Residue(tok) == IF "open" \in DOMAIN tok THEN << [text |-> tok.open] >> ELSE << >>

\* content.replace(/```label[\s\S]*?(```|$)/g, "")
RECURSIVE Remove(_, _)
Remove(toks, l) ==
  LET i == OpenIndex(toks, l)
      j == IF i = 0 THEN 0 ELSE CloseIndex(toks, i)
  IN  IF i = 0 THEN toks
      ELSE IF j = 0 THEN SubSeq(toks, 1, i - 1)
      ELSE SubSeq(toks, 1, i - 1) \o Residue(toks[j])
             \o Remove(SubSeq(toks, j + 1, Len(toks)), l)

\* cleanContent of formatMessageContent: json, cart, analytics.
cleanContent(content) == Remove(Remove(Remove(content, "json"), "cart"), "analytics")

\* stripBlocks of the chat route: cart, analytics, json.
stripBlocks(text) == Remove(Remove(Remove(text, "cart"), "analytics"), "json")

\* What sendToAPI takes from data.message.
TurnOf(text) ==
  LET cartData  == extractCartData(text)
      analytics == extractAnalytics(text)
      orderData == extractOrderData(text)
  IN  [hasCart      |-> ~cartData.isNull,
       cart         |-> IF cartData.isNull THEN << >> ELSE cartData.value,
       hasAnalytics |-> ~analytics.isNull,
       analytics    |-> IF analytics.isNull THEN NoEvent ELSE analytics.value,
       hasOrder     |-> ~orderData.isNull,
       order        |-> IF orderData.isNull THEN NoDraft ELSE orderData.value]

\* The extractors, the formatter and the history filter applied to turnText.
Extract ==
  /\ ~extracted.done
  /\ extracted' = [done      |-> TRUE,
                   cart      |-> extractCartData(turnText),
                   analytics |-> extractAnalytics(turnText),
                   order     |-> extractOrderData(turnText),
                   display   |-> cleanContent(turnText),
                   history   |-> stripBlocks(turnText)]
  /\ UNCHANGED << page, flight, orders, orderSeq, conversations, staff, turnText,
                  recorder >>

\* SpecExtract: any message of Texts handed to the extractors.
InitExtract ==
  /\ turnText \in Texts
  /\ extracted = NoExtraction
  /\ orderStarted = FALSE /\ isVoiceMode = FALSE /\ orderPlaced = FALSE
  /\ placedOrder = NoPlacedOrder /\ messages = << >> /\ cartItems = << >>
  /\ isLoading = FALSE /\ isSendingRef = FALSE /\ conversationIdRef = NullId
  /\ uncaught = {} /\ errorToast = NoToast /\ sessionNo = 0
  /\ chat = IdleChat /\ nChat = 0 /\ orderReqs = {} /\ lastFailed = NoFailure
  /\ convCreates = {} /\ convPatches = {} /\ analyticsReqs = {}
  /\ orders = << >> /\ orderSeq = 0 /\ conversations = << >>
  /\ lastPatch = NoPatch /\ nPatch = 0
  /\ isRecording = FALSE /\ isTranscribing = FALSE /\ transcribeReqs = 0

NextExtract == Extract

SpecExtract == InitExtract /\ [][NextExtract]_vars

\* ------------------------------------------------------- specification
\* Spec: a customer ordering by text (the "Type instead" start button).
VoiceModes == { FALSE }

Next ==
  \/ \E voice \in VoiceModes, created \in BOOLEAN : handleStartOrder(voice, created)
  \/ \E r \in convCreates : StartOrderResume(r)
  \/ handleCancelOrder
  \/ \E created \in BOOLEAN : handleNewOrder(created)
  \/ \E nonBlank \in BOOLEAN : sendMessage(nonBlank)
  \/ \E failure \in ChatFailures : ChatFailure(failure)
  \/ ToastExpires
  \/ \E t \in Turns : ChatSuccess(t)
  \/ \E r \in orderReqs, outcome \in InsertOutcomes : OrdersPOST(r, outcome)
  \/ \E r \in orderReqs : SubmitOrderResponse(r)
  \/ \E r \in orderReqs : SubmitOrderThrows(r)
  \/ \E q \in convPatches, dbOk \in BOOLEAN : ConversationsIdPATCH(q, dbOk)

Spec == Init /\ [][Next]_vars

\* Turns without an order block.
OpenTurns == { t \in Turns : ~t.hasOrder }

\* Turns of conversational text alone.
PlainTurns == { t \in Turns : ~t.hasOrder /\ ~t.hasCart }

\* /api/chat answers, one way or the other: an error answer, a thrown
\* fetch, or a message.
ChatResponds ==
  \/ \E failure \in { "error", "thrown" } : ChatFailure(failure)
  \/ \E t \in PlainTurns : ChatSuccess(t)

\* /api/transcribe answers, one way or the other.
TranscribeResponds == \E hasText \in BOOLEAN : TranscriptArrives(hasText)

\* SpecVoice: sessions by voice or by text, with the microphone, typed
\* sends, cancel, and speech.  Every request is answered in the end, and
\* speakText resolves at the latest when its 30 s timer fires; what the
\* customer does is left open.
NextVoice ==
  \/ \E voice \in BOOLEAN : handleStartOrder(voice, TRUE)
  \/ \E r \in convCreates : StartOrderResume(r)
  \/ handleCancelOrder
  \/ startRecording
  \/ \E meaningful \in BOOLEAN, byFocus \in BOOLEAN : RecordingStops(meaningful, byFocus)
  \/ TranscribeResponds
  \/ \E nonBlank \in BOOLEAN : sendMessage(nonBlank)
  \/ ChatResponds
  \/ SpeakDone

SpecVoice ==
  /\ Init /\ [][NextVoice]_vars
  /\ WF_vars(ChatResponds)
  /\ WF_vars(SpeakDone)
  /\ WF_vars(TranscribeResponds)

\* SpecRace: one text session whose turns report analytics events, the
\* customer sending the next message without waiting for the last event's
\* request (sendToAPI does not await sendAnalytics); the database answers
\* every statement.
NextRace ==
  \/ handleStartOrder(FALSE, TRUE)
  \/ \E r \in convCreates : StartOrderResume(r)
  \/ sendMessage(TRUE)
  \/ \E t \in AnalyticsTurns : ChatSuccess(t)
  \/ \E q \in analyticsReqs : AnalyticsSelect(q, TRUE)
  \/ \E q \in analyticsReqs : AnalyticsUpdate(q, TRUE)

SpecRace == Init /\ [][NextRace]_vars

\* SpecSend: text sessions that are started, cancelled and started again
\* while the customer sends messages; no turn confirms an order.
NextSend ==
  \/ \E created \in BOOLEAN : handleStartOrder(FALSE, created)
  \/ \E r \in convCreates : StartOrderResume(r)
  \/ handleCancelOrder
  \/ \E nonBlank \in BOOLEAN : sendMessage(nonBlank)
  \/ \E failure \in ChatFailures : ChatFailure(failure)
  \/ \E t \in OpenTurns : ChatSuccess(t)
  \/ ToastExpires

SpecSend == Init /\ [][NextSend]_vars

\* SpecMerge: one text session whose turns report analytics events; the
\* customer sends the next message once the last event has been handled.
NextMerge ==
  \/ \E created \in BOOLEAN : handleStartOrder(FALSE, created)
  \/ \E r \in convCreates : StartOrderResume(r)
  \/ analyticsReqs = {} /\ sendMessage(TRUE)
  \/ \E t \in AnalyticsTurns : ChatSuccess(t)
  \/ \E q \in analyticsReqs, dbOk \in BOOLEAN : AnalyticsSelect(q, dbOk)
  \/ \E q \in analyticsReqs, dbOk \in BOOLEAN : AnalyticsUpdate(q, dbOk)

SpecMerge == Init /\ [][NextMerge]_vars

\* The messages /api/chat answers with in SpecTurn: conversational text
\* alone or followed by one segment, closed or cut off.
TurnTexts == { << TextToken >> } \cup { << TextToken >> \o p : p \in Pieces \ { << TextToken >> } }

\* SpecTurn: one text session; every answer is a message of TurnTexts, from
\* which sendToAPI extracts what it acts on.  The requests it sends stay
\* in flight.
NextTurn ==
  \/ \E created \in BOOLEAN : handleStartOrder(FALSE, created)
  \/ \E r \in convCreates : StartOrderResume(r)
  \/ sendMessage(TRUE)
  \/ \E x \in TurnTexts : ChatSuccess(TurnOf(x))

SpecTurn == Init /\ [][NextTurn]_vars

\* A message with all three segments: the cart, an analytics event and the
\* confirmed order.
FullTurn ==
  << TextToken,
     OpenToken("cart"), PayloadToken([array |-> << "Latte" >>]), FenceToken,
     OpenToken("analytics"),
     PayloadToken([object |-> [off_menu_requests |-> << << "C", "h", "a", "i" >> >>,
                               upsell_attempted |-> << >>, upsell_accepted |-> << >>]]),
     FenceToken,
     OpenToken("json"),
     PayloadToken([object |-> [order_confirmed |-> "true", customer_name |-> "Ann",
                               items |-> << Item(575, 1) >>]]),
     FenceToken >>

FlowTexts == { << TextToken >>, FullTurn }

\* SpecFlow: one text session from its start to the placed order, with the
\* order route, the conversation routes and their failures.
NextFlow ==
  \/ \E created \in BOOLEAN : handleStartOrder(FALSE, created)
  \/ \E r \in convCreates : StartOrderResume(r)
  \/ sendMessage(TRUE)
  \/ \E x \in FlowTexts : ChatSuccess(TurnOf(x))
  \/ \E r \in orderReqs, outcome \in { "inserted", "unreachable" } : OrdersPOST(r, outcome)
  \/ \E r \in orderReqs : SubmitOrderResponse(r)
  \/ \E q \in convPatches, dbOk \in BOOLEAN : ConversationsIdPATCH(q, dbOk)
  \/ \E q \in analyticsReqs, dbOk \in BOOLEAN : AnalyticsSelect(q, dbOk)
  \/ \E q \in analyticsReqs, dbOk \in BOOLEAN : AnalyticsUpdate(q, dbOk)

SpecFlow == Init /\ [][NextFlow]_vars

\* ================================================= the order store and staff
Statuses == { "pending", "in_progress", "completed", "cancelled" }

\* Status values a request body can carry ("ready" is not a status).
RequestStatuses == Statuses \cup { "ready" }

\* cancel_reason values a request body can carry.
RequestReasons == { NoReason, "sold out" }

\* Row ids a request can name; MaxRows + 1 never exists.
RequestIds == 1 .. (MaxRows + 1)

\* .update(data).eq("id", id).select().single(): no row, or a failing
\* database, is an error; otherwise the named columns are overwritten.
UpdateFails(id, dbErr) == dbErr \/ id \notin 1 .. Len(orders)

\* updateData / fallbackData: status, plus completed_at for the two final
\* statuses, plus cancel_reason when withReason.
UpdatedRow(row, status, reason, withReason) ==
  [row EXCEPT
     !.status = status,
     !.completed_at = IF status \in { "completed", "cancelled" } THEN "set" ELSE @,
     !.cancel_reason = IF withReason /\ status = "cancelled" /\ reason # NoReason
                       THEN reason ELSE @]

\* The status a stored row has, or "none" when the id names no row.
StatusOf(id) == IF id \in 1 .. Len(orders) THEN orders[id].status ELSE "none"

PatchResponse(code, id, from, row) ==
  [code |-> code, id |-> id, from |-> from,
   status |-> row.status, cancel_reason |-> row.cancel_reason]

PatchError(code, id) ==
  [code |-> code, id |-> id, from |-> StatusOf(id),
   status |-> "none", cancel_reason |-> NoReason]

\* PATCH /api/orders/[id] with cancellation: validate the status word,
\* update; on an error with a cancel_reason in the body, update again
\* without the cancel_reason column and attach the reason to the answer.
OrdersIdPATCH(id, status, reason, dbErr1, dbErr2) ==
  /\ nPatch < MaxPatches
  /\ nPatch' = nPatch + 1
  /\ IF status \notin Statuses
     THEN /\ orders' = orders
          /\ lastPatch' = PatchError(400, id)
     ELSE IF ~UpdateFails(id, dbErr1)
     THEN /\ orders' = [orders EXCEPT ![id] = UpdatedRow(@, status, reason, TRUE)]
          /\ lastPatch' = PatchResponse(200, id, orders[id].status, orders'[id])
     ELSE IF reason # NoReason /\ ~UpdateFails(id, dbErr2)
     THEN /\ orders' = [orders EXCEPT ![id] = UpdatedRow(@, status, reason, FALSE)]
          /\ lastPatch' = PatchResponse(200, id, orders[id].status,
                             [orders'[id] EXCEPT !.cancel_reason = reason])
     ELSE /\ orders' = orders
          /\ lastPatch' = PatchError(500, id)
  /\ UNCHANGED << page, flight, orderSeq, conversations, extractor, recorder >>

\* PATCH /api/orders/[id] as in src/app/api/orders/[id]/route.ts: three
\* statuses, completed_at for completed, one update.
OrdersIdPATCHv1(id, status, dbErr) ==
  /\ nPatch < MaxPatches
  /\ nPatch' = nPatch + 1
  /\ IF status \notin { "pending", "in_progress", "completed" }
     THEN /\ orders' = orders
          /\ lastPatch' = PatchError(400, id)
     ELSE IF ~UpdateFails(id, dbErr)
     THEN /\ orders' = [orders EXCEPT ![id] = UpdatedRow(@, status, NoReason, FALSE)]
          /\ lastPatch' = PatchResponse(200, id, orders[id].status, orders'[id])
     ELSE /\ orders' = orders
          /\ lastPatch' = PatchError(500, id)
  /\ UNCHANGED << page, flight, orderSeq, conversations, extractor, recorder >>

\* An order placed from a customer page: submitOrder prices the draft and
\* POST /api/orders validates and inserts it.
PlaceOrder(orderData, src, outcome) ==
  /\ Len(orders) < MaxRows /\ orderSeq < MaxRows + 1
  /\ IF ItemsRejected(OrderBody(orderData).items)
     THEN UNCHANGED << orders, orderSeq >>
     ELSE /\ orders' = IF outcome = "inserted"
                       THEN Append(orders, NewOrderRow(OrderBody(orderData), src))
                       ELSE orders
          /\ orderSeq' = SeqAfter(outcome)
  /\ UNCHANGED << page, flight, conversations, staff, extractor, recorder >>

\* SpecStore: the staff side; orders arrive from customer pages (session 0
\* stands for any of them) and every statement that runs succeeds or the
\* database is not reached.
NextStore ==
  \/ \E d \in PricedDrafts, outcome \in { "inserted", "unreachable" } :
        PlaceOrder(d, 0, outcome)
  \/ \E id \in RequestIds, st \in RequestStatuses, reason \in RequestReasons,
        e1, e2 \in BOOLEAN : OrdersIdPATCH(id, st, reason, e1, e2)
  \/ \E id \in RequestIds, st \in RequestStatuses, e \in BOOLEAN :
        OrdersIdPATCHv1(id, st, e)

SpecStore == Init /\ [][NextStore]_vars

\* SpecInsert: inserts of several sessions reaching the orders table in any
\* order, each with any outcome.
NextInsert ==
  \E d \in PricedDrafts, src \in 1 .. MaxSessions, outcome \in InsertOutcomes :
     PlaceOrder(d, src, outcome)

SpecInsert == Init /\ [][NextInsert]_vars

\* ==================================================================== claims
\* The order the page shows as placed was inserted for the current session.
PlacedByThisSession ==
  /\ orderPlaced
  /\ \E i \in 1 .. Len(orders) :
        orders[i].order_number = placedOrder.order_number /\ orders[i].src = sessionNo

RequestIdsOf(reqs) == { r.id : r \in reqs }

\* C1: once the session's order has been placed (orderPlaced is true for an
\* order of this session), observing a confirmed order block is a no-op: no
\* further order request is issued, so the session inserts at most one order.
C1_ConfirmedBlockAfterPlacedIsNoOp ==
  [][PlacedByThisSession => RequestIdsOf(orderReqs') \subseteq RequestIdsOf(orderReqs)]_vars

\* C2 (as claimed): once orderPlaced is true no operation sets it back to
\* false, cancel and new-order included.
C2_FinalizedNeverReset ==
  [][orderPlaced => orderPlaced']_vars

\* C2 (amended): orderPlaced goes from true to false only in a step that ends
\* the session: handleCancelOrder (orderStarted becomes false) or
\* handleNewOrder (a new session_id is drawn).  Turns, errors and responses
\* never reset it.
C2_FinalizedResetOnlyBySessionEnd ==
  [][(orderPlaced /\ ~orderPlaced') => (~orderStarted' \/ sessionNo' # sessionNo)]_vars

\* A placed session with a further turn still in flight.
C2_Witness ==
  orderPlaced /\ orderStarted /\ chat.phase = "fetch"

\* C3: the page holds an order reference iff orderPlaced, and every
\* conversation row has an order_id iff it is converted.
C3_LinkedOrderIffFinalized ==
  /\ orderPlaced <=> placedOrder # NoPlacedOrder
  /\ \A c \in 1 .. Len(conversations) :
        conversations[c].converted <=> conversations[c].order_id # NullId

\* A placed session whose conversation row has been marked converted.
C3_Witness ==
  /\ orderPlaced
  /\ conversationIdRef # NullId
  /\ conversations[conversationIdRef].converted

\* C4: whenever orderPlaced is true the order store holds an order inserted
\* by the current session.
C4_FinalizedImpliesOwnOrder ==
  orderPlaced => \E i \in 1 .. Len(orders) : orders[i].src = sessionNo

\* C5: a submitOrder call that ends with a non-OK response or a thrown fetch
\* leaves orderPlaced and placedOrder as they were; a confirmed block for a
\* draft that failed earlier in the session is posted again while the session
\* is not placed; and a 2xx response marks the session placed with that order.
C5_FailedSubmitLeavesSessionOpen ==
  [][ /\ \A r \in orderReqs :
           ( /\ r.id \notin RequestIdsOf(orderReqs')
             /\ SubmitOrderThrows(r) \/ (SubmitOrderResponse(r) /\ ~ResOk(r.code)) )
             => (orderPlaced' = orderPlaced /\ placedOrder' = placedOrder)
      /\ \A t \in Turns :
           ( /\ chat.phase = "fetch" /\ t.hasOrder /\ ~orderPlaced
             /\ lastFailed.session = sessionNo
             /\ lastFailed.items = t.order.items
             /\ ChatSuccess(t) )
             => \E r \in orderReqs' \ orderReqs :
                   r.phase = "sent" /\ r.body = OrderBody(t.order)
      /\ \A r \in orderReqs :
           ( /\ r.id \notin RequestIdsOf(orderReqs')
             /\ ResOk(r.code)
             /\ SubmitOrderResponse(r) )
             => (orderPlaced' /\ placedOrder'.order_number = r.order_number)
    ]_vars

\* The session saw a submit of a draft fail and is now placed with the one
\* order it inserted, which carries the same items.
C5_Witness ==
  /\ PlacedByThisSession
  /\ lastFailed.session = sessionNo
  /\ lastFailed.items # << >>
  /\ \E i \in 1 .. Len(orders) :
        /\ orders[i].order_number = placedOrder.order_number
        /\ orders[i].items = lastFailed.items
  /\ Cardinality({ i \in 1 .. Len(orders) : orders[i].src = sessionNo }) = 1

\* C6: a confirmed draft without items is answered 400 without the orders
\* table being touched, no stored order is without items, and the end of that
\* submitOrder call leaves orderPlaced and placedOrder unchanged.
C6_EmptyDraftRejected ==
  /\ [](/\ \A i \in 1 .. Len(orders) : orders[i].items # << >>
        /\ \A r \in orderReqs :
              (r.body.items = << >> /\ r.phase = "done")
                => (~r.contacted /\ ~ResOk(r.code)))
  /\ [][\A r \in orderReqs :
          ( /\ r.body.items = << >>
            /\ r.id \notin RequestIdsOf(orderReqs')
            /\ SubmitOrderResponse(r) \/ SubmitOrderThrows(r) )
            => (orderPlaced' = orderPlaced /\ placedOrder' = placedOrder)]_vars

\* The 400 answer to an empty draft has been observed by the page.
C6_Witness ==
  /\ lastFailed.session = sessionNo /\ sessionNo > 0
  /\ lastFailed.items = << >>
  /\ lastFailed.code = 400
  /\ ~orderPlaced
  /\ orderReqs = {}

\* C7: every stored order has subtotal = sum of totalPrice x quantity,
\* tax = subtotal x 0.08875 rounded half-up to cents, total = subtotal + tax.
C7_PricingInvariant ==
  \A i \in 1 .. Len(orders) :
    /\ orders[i].subtotal = Subtotal(orders[i].items)
    /\ orders[i].tax = RoundHalfUpTax(orders[i].subtotal)
    /\ orders[i].total = orders[i].subtotal + orders[i].tax

\* pending < in_progress < completed; cancelled from a non-final status.
Rank(st) == CASE st = "pending" -> 0 [] st = "in_progress" -> 1 [] OTHER -> 2

Forward(from, to) ==
  /\ from \in { "pending", "in_progress" }
  /\ to = "cancelled" \/ (to \in { "in_progress", "completed" } /\ Rank(to) > Rank(from))

\* C8: a stored status changes only forward: along pending -> in_progress ->
\* completed, or to cancelled from a non-final status.
C8_StatusOnlyMovesForward ==
  [][\A i \in 1 .. Len(orders) :
       orders'[i].status # orders[i].status
         => Forward(orders[i].status, orders'[i].status)]_vars

\* C9: completed_at is set iff the status is completed or cancelled.
C9_CompletedAtIffFinal ==
  \A i \in 1 .. Len(orders) :
    (orders[i].completed_at # NoTime) <=> (orders[i].status \in { "completed", "cancelled" })

\* C10: when an update pending -> cancelled answers 200 with a cancel_reason
\* in the returned order, the stored order has that cancel_reason.
C10_ReturnedReasonIsStored ==
  ( /\ lastPatch.code = 200
    /\ lastPatch.from = "pending"
    /\ lastPatch.status = "cancelled"
    /\ lastPatch.cancel_reason # NoReason )
    => orders[lastPatch.id].cancel_reason = lastPatch.cancel_reason

\* C19: order numbers come from the store's sequence: an order inserted
\* later has a larger order_number than every order inserted before it, so no
\* two stored orders share a number, whichever sessions inserted them and
\* whichever inserts failed in between.
C19_OrderNumbersUniqueAndMonotonic ==
  /\ \A i, j \in 1 .. Len(orders) :
        i < j => orders[i].order_number < orders[j].order_number
  /\ \A i \in 1 .. Len(orders) : orders[i].order_number \in 1 .. orderSeq

\* Two sessions have each stored an order, with an aborted insert between.
C19_Witness ==
  /\ Len(orders) = 2
  /\ orders[1].src # orders[2].src
  /\ orders[2].order_number > orders[1].order_number + 1

\* C11: the analytics merge is idempotent: for the stored arrays S a request
\* has read and its event E, merge(merge(S, E), E) = merge(S, E).
C11_MergeIdempotent ==
  \A q \in analyticsReqs :
    q.phase = "read"
      => MergeAnalytics(MergeAnalytics(q.current, q.body), q.body)
           = MergeAnalytics(q.current, q.body)

\* An event that re-reports a stored name is about to be merged.
C11_Witness ==
  \E q \in analyticsReqs :
    /\ q.phase = "read"
    /\ RangeOf(q.body.off_menu_requests) \cap RangeOf(q.current.off_menu_requests) # {}

\* Case and whitespace normalization of an item name: surrounding blanks
\* dropped, capitals lowered.
LowerCase(c) == IF c = "C" THEN "c" ELSE IF c = "S" THEN "s" ELSE c

RECURSIVE Trim(_)
Trim(name) ==
  IF name = << >> THEN << >>
  ELSE IF Head(name) = " " THEN Trim(Tail(name))
  ELSE IF name[Len(name)] = " " THEN Trim(DropLast(name))
  ELSE name

Normalize(name) == [i \in 1 .. Len(Trim(name)) |-> LowerCase(Trim(name)[i])]

\* The indices of two entries of one array that are one name after
\* normalization.
SameNameTwice(arr) ==
  \E i, j \in 1 .. Len(arr) : i # j /\ Normalize(arr[i]) = Normalize(arr[j])

\* C12 (as claimed): in every category of every conversation the stored
\* names are a set-union after case and whitespace normalization: no two
\* entries differ only in letter case or surrounding whitespace.
C12_MergedNamesNormalized ==
  \A c \in 1 .. Len(conversations) :
    /\ ~SameNameTwice(conversations[c].off_menu_requests)
    /\ ~SameNameTwice(conversations[c].upsell_attempts)
    /\ ~SameNameTwice(conversations[c].upsell_successes)


\* --- C14, C15: extraction from one message
\* The places of the message's opening markers.
SegmentsOf(text) == { i \in 1 .. Len(text) : "open" \in DOMAIN text[i] }

\* The segment opened at i has its payload and its own closing marker.
ClosedAt(text, i) ==
  /\ i + 2 <= Len(text)
  /\ "payload" \in DOMAIN text[i + 1]
  /\ text[i + 2] = FenceToken

\* The payload has the shape its label calls for.
ProperPayload(l, v) ==
  CASE l = "cart" -> "array" \in DOMAIN v
    [] l = "analytics" ->
         /\ "object" \in DOMAIN v
         /\ { "off_menu_requests", "upsell_attempted", "upsell_accepted" }
              \subseteq DOMAIN v.object
    [] OTHER ->
         /\ "object" \in DOMAIN v
         /\ { "order_confirmed", "items" } \subseteq DOMAIN v.object
         /\ v.object.order_confirmed = "true"

\* Every segment is closed and proper, and no label occurs twice.
WellFormedMessage(text) ==
  /\ \A i \in SegmentsOf(text) :
       ClosedAt(text, i) /\ ProperPayload(text[i].open, text[i + 1].payload)
  /\ \A i, j \in SegmentsOf(text) : text[i].open = text[j].open => i = j

HasSegment(text, l) == \E i \in SegmentsOf(text) : text[i].open = l

PayloadOf(text, l) ==
  text[(CHOOSE i \in SegmentsOf(text) : text[i].open = l) + 1].payload

ConversationOf(text) == SelectSeq(text, LAMBDA tok : tok = TextToken)

\* C14: from a message holding any subset of the three well-formed fenced
\* segments, in any order, exactly the segments present are extracted, each
\* with its own payload, and both the displayed text and the text kept for
\* the model's history are the conversational text alone, with no marker
\* and no payload.
C14_WellFormedSegmentsExtracted ==
  (extracted.done /\ WellFormedMessage(turnText)) =>
    /\ extracted.cart =
         IF HasSegment(turnText, "cart")
         THEN Value(PayloadOf(turnText, "cart").array) ELSE Null
    /\ extracted.analytics =
         IF HasSegment(turnText, "analytics")
         THEN LET o == PayloadOf(turnText, "analytics").object
              IN  Value([off_menu_requests |-> o.off_menu_requests,
                         upsell_attempts   |-> o.upsell_attempted,
                         upsell_successes  |-> o.upsell_accepted])
         ELSE Null
    /\ extracted.order =
         IF HasSegment(turnText, "json")
         THEN Value(PayloadOf(turnText, "json").object) ELSE Null
    /\ extracted.display = ConversationOf(turnText)
    /\ extracted.history = ConversationOf(turnText)

\* All three segments, the cart not first, have been extracted.
C14_Witness ==
  /\ extracted.done
  /\ WellFormedMessage(turnText)
  /\ \A l \in Labels : HasSegment(turnText, l)
  /\ turnText[1] # OpenToken("cart")
  /\ ~extracted.cart.isNull /\ ~extracted.analytics.isNull /\ ~extracted.order.isNull

\* The segment opened at i was cut off before its closing marker.
TruncatedAt(text, i) == i \in SegmentsOf(text) /\ ~ClosedAt(text, i)

\* C15: of a message with a segment that has an opening marker but no
\* closing marker, each extractor yields a payload of the message or
\* nothing, and the displayed text holds nothing of the truncated fragment:
\* neither its payload nor the label of a marker.
C15_TruncatedSegmentTolerated ==
  (extracted.done /\ \E i \in SegmentsOf(turnText) : TruncatedAt(turnText, i)) =>
    /\ extracted.cart.isNull
         \/ \E i \in SegmentsOf(turnText) :
              /\ turnText[i].open = "cart"
              /\ "array" \in DOMAIN turnText[i + 1].payload
              /\ extracted.cart.value = turnText[i + 1].payload.array
    /\ extracted.order.isNull
         \/ \E i \in SegmentsOf(turnText) :
              /\ turnText[i].open = "json"
              /\ "object" \in DOMAIN turnText[i + 1].payload
              /\ extracted.order.value = turnText[i + 1].payload.object
    /\ \A i \in SegmentsOf(turnText) : \A k \in 1 .. Len(extracted.display) :
         TruncatedAt(turnText, i) =>
           /\ extracted.display[k] # [text |-> turnText[i].open]
           /\ extracted.display[k] = turnText[i + 1] =>
                \E j \in SegmentsOf(turnText) :
                  ClosedAt(turnText, j) /\ turnText[j + 1] = turnText[i + 1]


\* --- C13: cart reconciliation
\* The message carries a cart snapshot: a closed cart segment holding an array.
CarriesSnapshot(x) ==
  \E i \in SegmentsOf(x) :
    x[i].open = "cart" /\ ClosedAt(x, i) /\ "array" \in DOMAIN x[i + 1].payload

\* The message has no cart segment, or one whose payload is no snapshot.
NoSnapshot(x) ==
  \A i \in SegmentsOf(x) : x[i].open = "cart" => "array" \notin DOMAIN x[i + 1].payload

\* C13: handling a turn whose message carries a cart snapshot makes the
\* current cart that snapshot exactly, whatever the cart was; handling a
\* turn with no cart segment, or an unparseable one, leaves the cart as it
\* was.
C13_CartReplacedNeverMerged ==
  [][\A x \in TurnTexts : ChatSuccess(TurnOf(x)) =>
       /\ CarriesSnapshot(x) => cartItems' = PayloadOf(x, "cart").array
       /\ NoSnapshot(x) => cartItems' = cartItems]_vars

\* Two turns have been handled and the cart holds a snapshot.
C13_Witness ==
  /\ nChat = 2 /\ chat.phase = "idle" /\ Len(messages) = 4
  /\ cartItems = << "Latte" >>

\* --- C16: payloads of the wrong shape
\* C16: no segment whose payload parses but has the wrong shape makes turn
\* handling, order submission or rendering raise: no exception escapes.
C16_WrongShapeNeverRaises == uncaught = {}

\* --- C17: the confirmation flag
\* The message has an order segment whose flag is the boolean true.
ExplicitlyConfirmed(x) ==
  \E i \in SegmentsOf(x) :
    /\ x[i].open = "json"
    /\ "object" \in DOMAIN x[i + 1].payload
    /\ "order_confirmed" \in DOMAIN x[i + 1].payload.object
    /\ x[i + 1].payload.object.order_confirmed = "true"

\* C17: handling a turn whose order segment does not carry the boolean
\* true as its flag (false, missing, or a value of another type) submits no
\* order.
C17_OnlyBooleanTrueSubmits ==
  [][\A x \in TurnTexts : (ChatSuccess(TurnOf(x)) /\ ~ExplicitlyConfirmed(x)) =>
       orderReqs' = orderReqs]_vars


\* --- C18: turns after finalization
\* C18: a turn handled once the order is placed still replaces the cart by
\* its snapshot and still sends its analytics event to be merged, and
\* changes nothing in the order store: no order request is issued and no
\* row is inserted.
C18_FinalizedTurnLeavesOrderStore ==
  [][\A x \in FlowTexts : (orderPlaced /\ ChatSuccess(TurnOf(x))) =>
       /\ CarriesSnapshot(x) => cartItems' = PayloadOf(x, "cart").array
       /\ (HasSegment(x, "analytics") /\ conversationIdRef # NullId) =>
            \E q \in analyticsReqs' : q.id = chat.n /\ q.conv = conversationIdRef
       /\ orderReqs' = orderReqs
       /\ orders' = orders]_vars

\* --- C20: failures of the conversation store
\* The order flow is where it was.
OrderFlowKept ==
  /\ orders' = orders
  /\ orderReqs' = orderReqs
  /\ orderPlaced' = orderPlaced
  /\ placedOrder' = placedOrder

\* C20: a failed conversation create, analytics merge or conversion update
\* is dropped (the request is gone and none is sent in its place) and
\* leaves the stored orders, the order requests and the placed state as they
\* were; and a confirmed order block arriving in an open session is
\* submitted with its priced body whether or not the session has a
\* conversation.
C20_ConversationFailuresLeaveOrderFlow ==
  [][/\ \A r \in convCreates : (r.conv = NullId /\ StartOrderResume(r)) =>
          /\ OrderFlowKept
          /\ convCreates' = convCreates \ {r}
          /\ convPatches' = convPatches /\ analyticsReqs' = analyticsReqs
     /\ \A q \in analyticsReqs : (AnalyticsSelect(q, FALSE) \/ AnalyticsUpdate(q, FALSE)) =>
          /\ OrderFlowKept
          /\ analyticsReqs' = analyticsReqs \ {q}
          /\ convCreates' = convCreates /\ convPatches' = convPatches
     /\ \A q \in convPatches : ConversationsIdPATCH(q, FALSE) =>
          /\ OrderFlowKept
          /\ convPatches' = convPatches \ {q}
          /\ convCreates' = convCreates /\ analyticsReqs' = analyticsReqs
     /\ \A x \in FlowTexts :
          (~orderPlaced /\ ExplicitlyConfirmed(x) /\ ChatSuccess(TurnOf(x))) =>
            \E r \in orderReqs' \ orderReqs :
              /\ r.phase = "sent"
              /\ r.body = OrderBody(PayloadOf(x, "json").object)]_vars

\* The session never got a conversation (the create failed), and its order
\* is stored and shown as placed.
C20_Witness ==
  /\ orderStarted /\ conversationIdRef = NullId /\ convCreates = {}
  /\ orderPlaced
  /\ \E i \in 1 .. Len(orders) : orders[i].order_number = placedOrder.order_number


\* --- C21: failed order submissions
\* C21: whenever a submitOrder call ends without a stored order confirmed
\* to the page (the route answers 400 or 500, or the fetch throws), the
\* customer is shown an error notification.
C21_FailedSubmissionSurfaced ==
  [][\A r \in orderReqs :
       ((SubmitOrderResponse(r) /\ ~ResOk(r.code)) \/ SubmitOrderThrows(r)) =>
         errorToast' # NoToast]_vars


\* --- C22: failed chat turns
\* C22: when a chat request fails, the message list loses exactly the user
\* message that triggered the request and nothing else: the list ends with
\* that user message when the failure is handled, and afterwards is the
\* list without it; no message is added.
C22_FailedTurnRestoresHistory ==
  [][\A failure \in ChatFailures : ChatFailure(failure) =>
       /\ messages # << >>
       /\ messages[Len(messages)] = "user"
       /\ messages' = DropLast(messages)]_vars


\* --- C23: the turn list
IsPrefix(s, t) == Len(s) <= Len(t) /\ SubSeq(t, 1, Len(s)) = s

\* C23: in every step within a session (the session neither ends nor is
\* replaced by a new one) the message list before the step is a prefix of
\* the list after it: no turn is removed or rewritten.
C23_TurnsAppendOnly ==
  [][(orderStarted /\ orderStarted' /\ sessionNo' = sessionNo) =>
       IsPrefix(messages, messages')]_vars


\* --- C24: serialized sends
\* C24: a chat request is issued only when none is in flight and the lock
\* is free, and it becomes the one in flight; while one is in flight the
\* lock is held; a sendMessage made while the lock is held appends no message
\* and issues no request; and the answer applied to the list is the answer
\* to the latest message sent.
C24_SendsSerialized ==
  [][/\ chat.phase # "idle" => isSendingRef
     /\ nChat' # nChat =>
          /\ chat.phase = "idle" /\ ~isSendingRef
          /\ nChat' = nChat + 1
          /\ chat'.phase = "fetch" /\ chat'.n = nChat'
     /\ \A nonBlank \in BOOLEAN : (isSendingRef /\ sendMessage(nonBlank)) =>
          messages' = messages /\ nChat' = nChat /\ chat' = chat
     /\ \A t \in OpenTurns : ChatSuccess(t) => chat.n = nChat]_vars

\* A request of a cancelled session is still in flight under the lock, and
\* the page of the new session would accept a message (isLoading is false).
C24_Witness ==
  /\ chat.phase = "fetch" /\ isSendingRef
  /\ orderStarted /\ ~isLoading /\ sessionNo > chat.session
  /\ messages = << "assistant" >>


\* --- C25: the ambiguous outcome
\* C25: when the fetch of a submission throws after the route has stored
\* the row, the row stays and the page is not marked placed; and a confirmed
\* block repeating a draft whose submission by this session was seen to fail
\* is posted again as it is.  Together they make the duplicate of the
\* witness reachable.
C25_AmbiguousOutcomeRetried ==
  [][/\ \A r \in orderReqs :
          (r.phase = "done" /\ r.code = 201 /\ SubmitOrderThrows(r)) =>
            /\ orders' = orders
            /\ \E i \in 1 .. Len(orders) : orders[i].id = r.order_id
            /\ orderPlaced' = orderPlaced /\ placedOrder' = placedOrder
     /\ \A t \in Turns :
          (/\ ChatSuccess(t) /\ t.hasOrder /\ t.order.items # << >>
           /\ lastFailed.session = sessionNo /\ lastFailed.code = 0
           /\ lastFailed.items = t.order.items) =>
            \E r \in orderReqs' \ orderReqs : r.body = OrderBody(t.order) /\ r.phase = "sent"]_vars

\* The store holds two rows of one session with the same items, the page
\* saw a submission of that draft throw, and the session is not marked placed.
C25_Witness ==
  /\ Len(orders) = 2
  /\ orders[1].src = orders[2].src /\ orders[1].items = orders[2].items
  /\ lastFailed.session = orders[1].src /\ lastFailed.code = 0
  /\ lastFailed.items = orders[1].items
  /\ sessionNo = orders[1].src /\ ~orderPlaced


\* --- C26: interleaved analytics merges
\* C26: with events sent without waiting for each other, no write of a
\* merge loses a name: every name stored for the conversation before the
\* write is stored after it, in every category, so that once all requests
\* are done the stored sets hold every name reported.
C26_InterleavedMergesLoseNothing ==
  [][\A q \in analyticsReqs : AnalyticsUpdate(q, TRUE) =>
       /\ RangeOf(conversations[q.conv].off_menu_requests)
            \subseteq RangeOf(conversations'[q.conv].off_menu_requests)
       /\ RangeOf(conversations[q.conv].upsell_attempts)
            \subseteq RangeOf(conversations'[q.conv].upsell_attempts)
       /\ RangeOf(conversations[q.conv].upsell_successes)
            \subseteq RangeOf(conversations'[q.conv].upsell_successes)]_vars


\* --- C27: overlapping submissions
\* C27: when two submissions of one session are waiting at the same time
\* (the second confirmed block was handled before the first response came
\* back), the store inserts a row for at most one of them.
C27_OverlapInsertsOnce ==
  [][\A r \in orderReqs :
       (\E other \in orderReqs \ {r} : other.session = r.session /\ other.code = 201) =>
         ~(OrdersPOST(r, "inserted") /\ orders' # orders)]_vars


\* --- C28: responses that arrive after a cancel
\* C28: the answer to a chat request of a session that has since been
\* cancelled or replaced changes nothing of the reset state: it appends no
\* message, sets no cart, sends no analytics event and submits no order.
C28_LateResponseIgnored ==
  [][\A t \in Turns :
       (ChatSuccess(t) /\ (~orderStarted \/ chat.session # sessionNo)) =>
         /\ messages' = messages
         /\ cartItems' = cartItems
         /\ analyticsReqs' = analyticsReqs
         /\ orderReqs' = orderReqs]_vars


\* --- C29: the send lock
\* C29: whatever the outcome of a chat turn (an answer, an error answer, a
\* thrown fetch, speech that ends or only times out), the lock taken by the
\* send is released and the loading flag cleared in the end.
C29_SendLockReleased ==
  isSendingRef ~> (~isSendingRef /\ ~isLoading)

\* The answer has been applied and the lock is held while it is spoken.
C29_Witness ==
  chat.phase = "speaking" /\ isSendingRef /\ isLoading /\ isVoiceMode

\* --- C30: the transcribing flag
\* C30: after every recording stop, isTranscribing returns to false in the
\* end, whatever typed sends are made in between.
C30_TranscribingClears ==
  isTranscribing ~> ~isTranscribing

====
